---- MODULE Spec2Model ----
(***************************************************************************)
(* The two evaluators of src/main.rs for the untyped call-by-value lambda  *)
(* calculus: eval_without_trampoline (direct recursion) and                *)
(* eval_with_trampoline driven by Trampoline::run.  The native call stack  *)
(* is explicit: one frame per active invocation of eval_without_trampoline,*)
(* of Trampoline::run and of the deferred closure of an application.       *)
(***************************************************************************)
EXTENDS Integers, Sequences, FiniteSets, TLC

VARIABLES
    expr,       \* the term handed to both evaluators
    context,    \* the environment handed to both evaluators
    order,      \* which evaluator is called first
    running,    \* the evaluator whose call is in progress, or "none"
    stack,      \* native call stack of the evaluation in progress, top last
    ret,        \* value returned by the invocation that ended last
    result      \* outcome of each evaluator's call

vars == <<expr, context, order, running, stack, ret, result>>

(***************************************************************************)
(* Bounds                                                                  *)
(***************************************************************************)
\* number of nodes of the exhaustively enumerated input terms
MaxTermSize == 6
\* native stack frames available to one evaluation
MaxStack == 12

(***************************************************************************)
(* Expr, Value, Context                                                    *)
(***************************************************************************)
Var(name) == [tag |-> "Var", name |-> name]
Abs(param, body) == [tag |-> "Abs", param |-> param, body |-> body]
App(f, arg) == [tag |-> "App", f |-> f, arg |-> arg]

VClosure(ctx, param, body) == [ctx |-> ctx, param |-> param, body |-> body]

\* a Context is a HashMap<String, Value>: a set of bindings with unique keys
Binding(name, value) == [name |-> name, value |-> value]
EmptyContext == {}
Keys(ctx) == {b.name : b \in ctx}
ContainsKey(ctx, name) == name \in Keys(ctx)
Get(ctx, name) == (CHOOSE b \in ctx : b.name = name).value
\* the binding goes to a copy that is thrown away
InsertDropped(ctx, name, value) == ctx

Insert(ctx, name, value) ==
    {b \in ctx : b.name # name} \cup {Binding(name, value)}

None == [tag |-> "None"]

(***************************************************************************)
(* Trampoline                                                              *)
(***************************************************************************)
Complete(value) == [tag |-> "Complete", value |-> value]
\* the boxed FnOnce of an application owns f, arg and context
Continue(f, arg, ctx) == [tag |-> "Continue", f |-> f, arg |-> arg, context |-> ctx]
\* the panic raised by unwrap_or_else / the None arm of the lookup
Panic(name) == [tag |-> "Panic", name |-> name]

\* the closure of an abstraction captures nothing
eval_with_trampoline_no_capture(e, ctx) ==
    CASE e.tag = "Var" ->
            IF ContainsKey(ctx, e.name) THEN Complete(Get(ctx, e.name))
                                        ELSE Panic(e.name)
      [] e.tag = "Abs" -> Complete(VClosure(EmptyContext, e.param, e.body))
      [] e.tag = "App" -> Continue(e.f, e.arg, ctx)

\* the function subterm of an application is looked up while the pending
\* trampoline is built
eval_with_trampoline_eager(e, ctx) ==
    CASE e.tag = "Var" ->
            IF ContainsKey(ctx, e.name) THEN Complete(Get(ctx, e.name))
                                        ELSE Panic(e.name)
      [] e.tag = "Abs" -> Complete(VClosure(ctx, e.param, e.body))
      [] e.tag = "App" ->
            IF e.f.tag = "Var" /\ ~ContainsKey(ctx, e.f.name) THEN Panic(e.f.name)
            ELSE Continue(e.f, e.arg, ctx)

eval_with_trampoline(e, ctx) ==
    CASE e.tag = "Var" ->
            IF ContainsKey(ctx, e.name) THEN Complete(Get(ctx, e.name))
                                        ELSE Panic(e.name)
      [] e.tag = "Abs" -> Complete(VClosure(ctx, e.param, e.body))
      [] e.tag = "App" -> Continue(e.f, e.arg, ctx)

(***************************************************************************)
(* Inputs                                                                  *)
(***************************************************************************)
Names == {"x", "y"}

RECURSIVE TermsOfSize(_)
TermsOfSize(n) ==
    IF n = 1 THEN {Var(v) : v \in Names}
    ELSE {Abs(p, b) : p \in Names, b \in TermsOfSize(n - 1)}
         \cup UNION {{App(f, a) : f \in TermsOfSize(k), a \in TermsOfSize(n - 1 - k)} :
                        k \in 1..(n - 2)}

SmallTerms == UNION {TermsOfSize(n) : n \in 1..MaxTermSize}

SelfApply == Abs("x", App(Var("x"), Var("x")))
\* looping_expr of not_stack_overflow
Omega == App(SelfApply, SelfApply)
\* self application in function position of an application (not a tail call)
SelfApplyNested == Abs("x", App(App(Var("x"), Var("x")), Var("x")))
OmegaNested == App(SelfApplyNested, SelfApplyNested)
Identity == Abs("x", Var("x"))
\* two and pred of check_results
two == Abs("f", Abs("x", App(Var("f"), App(Var("f"), Var("x")))))
pred ==
    App(Abs("n", App(App(Var("n"),
                         Abs("g", Abs("h", App(Var("h"), App(Var("g"), Var("f")))))),
                     Abs("u", Var("x")))),
        two)

\* a terminating term that calls, three applications deep, a closure whose
\* body is itself three applications deep
DeepBody == App(App(App(Identity, Identity), Identity), Identity)
DeepCall ==
    App(Abs("x", App(App(App(Var("x"), Identity), Identity), Identity)),
        Abs("y", DeepBody))

PredNames == {"f", "x", "n", "g", "h", "u"}

SpecialTerms ==
    { Omega, OmegaNested, pred, DeepCall,
      App(Identity, Abs("y", Var("y"))),
      App(App(Var("x"), Var("x")), Var("y")),
      App(Omega, Var("y")),
      App(Abs("x", Abs("y", Var("y"))), Omega),
      App(App(Abs("x", Abs("x", Var("x"))), Identity), Abs("y", Var("y"))),
      App(App(Abs("x", Abs("y", Var("y"))), Identity), Var("x")) }

IdValue == VClosure(EmptyContext, "x", Var("x"))
YValue == VClosure(EmptyContext, "y", Var("y"))
KValue == VClosure(EmptyContext, "x", Abs("y", Var("x")))
Contexts ==
    { EmptyContext,
      {Binding("x", KValue), Binding("y", IdValue)},
      {Binding("x", IdValue)},
      \* x is a closure whose body names y, bound by the caller only
      {Binding("x", VClosure(EmptyContext, "x", Var("y"))), Binding("y", YValue)},
      \* x is a closure whose captured environment already binds its parameter
      {Binding("x", VClosure({Binding("x", YValue)}, "x", Var("x"))), Binding("y", IdValue)},
      {Binding("x", VClosure(EmptyContext, "x", App(Var("x"), Var("x"))))} }

Inputs == (SmallTerms \X Contexts) \cup (SpecialTerms \X {EmptyContext})

Evaluators == {"with_trampoline", "without_trampoline"}
Other(ev) == CHOOSE o \in Evaluators : o # ev

(***************************************************************************)
(* Call stack                                                              *)
(***************************************************************************)
\* an invocation of eval_without_trampoline(e, ctx)
EvalFrame(e, ctx) ==
    [fn |-> "eval_without_trampoline", expr |-> e, context |-> ctx, pc |-> "start",
     func_value |-> None, arg_value |-> None, new_ctx |-> EmptyContext]
\* an invocation of Trampoline::run on t
RunFrame(t) == [fn |-> "run", current_trampoline |-> t, pc |-> "loop"]
\* an invocation of the boxed closure built for App(f, arg) under ctx
ClosureFrame(t) ==
    [fn |-> "closure", f |-> t.f, arg |-> t.arg, context |-> t.context, pc |-> "start",
     func_value_tramp |-> None, arg_value_tramp |-> None,
     func_value |-> None, arg_value |-> None, new_ctx |-> EmptyContext]

Top == stack[Len(stack)]
SetTop(fr) == [stack EXCEPT ![Len(stack)] = fr]
Pop == SubSeq(stack, 1, Len(stack) - 1)

Returned(value) == [tag |-> "Returned", value |-> value]

\* the top invocation returns v to its caller, or to the test when it is the
\* outermost one
Return(v) ==
    /\ ret' = v
    /\ stack' = Pop
    /\ IF Len(stack) = 1
       THEN /\ result' = [result EXCEPT ![running] = Returned(v)]
            /\ running' = "none"
       ELSE UNCHANGED <<result, running>>
    /\ UNCHANGED <<expr, context, order>>

\* the failure is recorded but the invocations on the stack carry on
PanicWithNoUnwind(name) ==
    /\ result' = [result EXCEPT ![running] = Panic(name)]
    /\ UNCHANGED <<expr, context, order, ret, running, stack>>

\* panic!("Variable {} not found", name): the stack unwinds to the test
PanicWith(name) ==
    /\ result' = [result EXCEPT ![running] = Panic(name)]
    /\ running' = "none"
    /\ stack' = <<>>
    /\ UNCHANGED <<expr, context, order, ret>>

\* the top invocation calls callee and waits for it at pc
Call(caller, callee) ==
    /\ Len(stack) < MaxStack
    /\ stack' = Append(SetTop(caller), callee)
    /\ UNCHANGED <<expr, context, order, running, ret, result>>

\* the top invocation moves on without a call
Step(fr) ==
    /\ stack' = SetTop(fr)
    /\ UNCHANGED <<expr, context, order, running, ret, result>>

InFn(fn, pc) == stack # <<>> /\ Top.fn = fn /\ Top.pc = pc

(***************************************************************************)
(* eval_without_trampoline                                                 *)
(***************************************************************************)
\* a missing variable evaluates to a default closure
EvalVarDefault ==
    /\ InFn("eval_without_trampoline", "start")
    /\ Top.expr.tag = "Var"
    /\ IF ContainsKey(Top.context, Top.expr.name)
       THEN Return(Get(Top.context, Top.expr.name))
       ELSE Return(VClosure(EmptyContext, Top.expr.name, Var(Top.expr.name)))

EvalVar ==
    /\ InFn("eval_without_trampoline", "start")
    /\ Top.expr.tag = "Var"
    /\ IF ContainsKey(Top.context, Top.expr.name)
       THEN Return(Get(Top.context, Top.expr.name))
       ELSE PanicWith(Top.expr.name)

\* the closure is built over a fresh environment
EvalAbsNoCapture ==
    /\ InFn("eval_without_trampoline", "start")
    /\ Top.expr.tag = "Abs"
    /\ Return(VClosure(EmptyContext, Top.expr.param, Top.expr.body))

EvalAbs ==
    /\ InFn("eval_without_trampoline", "start")
    /\ Top.expr.tag = "Abs"
    /\ Return(VClosure(Top.context, Top.expr.param, Top.expr.body))

EvalAppFunc ==
    /\ InFn("eval_without_trampoline", "start")
    /\ Top.expr.tag = "App"
    /\ Call([Top EXCEPT !.pc = "func"], EvalFrame(Top.expr.f, Top.context))

\* the argument is bound unevaluated and the body is entered at once
EvalAppArgLazy ==
    /\ InFn("eval_without_trampoline", "func")
    /\ LET thunk == VClosure(Top.context, "_", Top.expr.arg)
       IN  Step([Top EXCEPT !.pc = "insert", !.func_value = ret, !.arg_value = thunk,
                            !.new_ctx = Insert(ret.ctx, ret.param, thunk)])

EvalAppArg ==
    /\ InFn("eval_without_trampoline", "func")
    /\ Call([Top EXCEPT !.pc = "arg", !.func_value = ret],
            EvalFrame(Top.expr.arg, Top.context))

\* the environment of the caller is shared with the one that is extended
EvalAppInsertShared ==
    /\ InFn("eval_without_trampoline", "arg")
    /\ Step([Top EXCEPT !.pc = "insert", !.arg_value = ret,
                        !.new_ctx = Insert(Top.func_value.ctx, Top.func_value.param, ret),
                        !.context = Insert(Top.context, Top.func_value.param, ret)])

EvalAppInsert ==
    /\ InFn("eval_without_trampoline", "arg")
    /\ Step([Top EXCEPT !.pc = "insert", !.arg_value = ret,
                        !.new_ctx = Insert(Top.func_value.ctx, Top.func_value.param, ret)])

\* the body is evaluated in place of the application's invocation
EvalAppBodyTail ==
    /\ InFn("eval_without_trampoline", "insert")
    /\ Step(EvalFrame(Top.func_value.body, Top.new_ctx))

EvalAppBody ==
    /\ InFn("eval_without_trampoline", "insert")
    /\ Call([Top EXCEPT !.pc = "body"], EvalFrame(Top.func_value.body, Top.new_ctx))

EvalAppReturn ==
    /\ InFn("eval_without_trampoline", "body")
    /\ Return(ret)

(***************************************************************************)
(* Trampoline::run                                                         *)
(***************************************************************************)
RunComplete ==
    /\ InFn("run", "loop")
    /\ Top.current_trampoline.tag = "Complete"
    /\ Return(Top.current_trampoline.value)

RunContinue ==
    /\ InFn("run", "loop")
    /\ Top.current_trampoline.tag = "Continue"
    /\ Call([Top EXCEPT !.pc = "func"], ClosureFrame(Top.current_trampoline))

RunAssign ==
    /\ InFn("run", "func")
    /\ Step([Top EXCEPT !.pc = "loop", !.current_trampoline = ret])

(***************************************************************************)
(* the closure eval_with_trampoline boxes for an application               *)
(***************************************************************************)
ClosureEvalFunc ==
    /\ InFn("closure", "start")
    /\ LET t == eval_with_trampoline(Top.f, Top.context)
       IN  IF t.tag = "Panic" THEN PanicWith(t.name)
           ELSE Step([Top EXCEPT !.pc = "func_tramp", !.func_value_tramp = t])

ClosureEvalArg ==
    /\ InFn("closure", "func_tramp")
    /\ LET t == eval_with_trampoline(Top.arg, Top.context)
       IN  IF t.tag = "Panic" THEN PanicWith(t.name)
           ELSE Step([Top EXCEPT !.pc = "arg_tramp", !.arg_value_tramp = t])

ClosureRunFunc ==
    /\ InFn("closure", "arg_tramp")
    /\ Call([Top EXCEPT !.pc = "func"], RunFrame(Top.func_value_tramp))

ClosureRunArg ==
    /\ InFn("closure", "func")
    /\ Call([Top EXCEPT !.pc = "arg", !.func_value = ret], RunFrame(Top.arg_value_tramp))

\* the parameter is bound in the caller's environment
ClosureInsertDynamic ==
    /\ InFn("closure", "arg")
    /\ Step([Top EXCEPT !.pc = "insert", !.arg_value = ret,
                        !.new_ctx = Insert(Top.context, Top.func_value.param, ret)])

ClosureInsert ==
    /\ InFn("closure", "arg")
    /\ Step([Top EXCEPT !.pc = "insert", !.arg_value = ret,
                        !.new_ctx = Insert(Top.func_value.ctx, Top.func_value.param, ret)])

\* the body is run inside the step
ClosureBodySync ==
    /\ InFn("closure", "insert")
    /\ LET t == eval_with_trampoline(Top.func_value.body, Top.new_ctx)
       IN  IF t.tag = "Panic" THEN PanicWith(t.name)
           ELSE Call([Top EXCEPT !.pc = "body"], RunFrame(t))

ClosureBody ==
    /\ InFn("closure", "insert")
    /\ LET t == eval_with_trampoline(Top.func_value.body, Top.new_ctx)
       IN  IF t.tag = "Panic" THEN PanicWith(t.name) ELSE Return(t)

(***************************************************************************)
(* The calls of the tests                                                  *)
(***************************************************************************)
MayCall(ev) ==
    /\ running = "none"
    /\ result[ev] = None
    /\ order = ev \/ result[Other(ev)] # None

\* eval_without_trampoline(expr, context)
CallWithout ==
    /\ MayCall("without_trampoline")
    /\ running' = "without_trampoline"
    /\ stack' = <<EvalFrame(expr, context)>>
    /\ UNCHANGED <<expr, context, order, ret, result>>

\* eval_with_trampoline(expr, context).run()
CallWith ==
    /\ MayCall("with_trampoline")
    /\ LET t == eval_with_trampoline(expr, context)
       IN  IF t.tag = "Panic"
           THEN /\ result' = [result EXCEPT !["with_trampoline"] = Panic(t.name)]
                /\ UNCHANGED <<running, stack>>
           ELSE /\ running' = "with_trampoline"
                /\ stack' = <<RunFrame(t)>>
                /\ UNCHANGED result
    /\ UNCHANGED <<expr, context, order, ret>>

Init ==
    /\ \E in \in Inputs : expr = in[1] /\ context = in[2]
    /\ order \in Evaluators
    /\ running = "none"
    /\ stack = <<>>
    /\ ret = None
    /\ result = [ev \in Evaluators |-> None]

Next ==
    \/ CallWithout \/ CallWith
    \/ EvalVar \/ EvalAbs \/ EvalAppFunc \/ EvalAppArg \/ EvalAppInsert
    \/ EvalAppBody \/ EvalAppReturn
    \/ RunComplete \/ RunContinue \/ RunAssign
    \/ ClosureEvalFunc \/ ClosureEvalArg \/ ClosureRunFunc \/ ClosureRunArg
    \/ ClosureInsert \/ ClosureBody

Spec == Init /\ [][Next]_vars

\* every call of the single thread of control keeps running
FairSpec == Spec /\ WF_vars(Next)

(***************************************************************************)
(* Properties                                                              *)
(***************************************************************************)
With == result["with_trampoline"]
Without == result["without_trampoline"]
Frames == {stack[i] : i \in 1..Len(stack)}

\* C1: whenever eval_without_trampoline(expr, context) returns a value,
\* eval_with_trampoline(expr, context).run() returns as well, and its closure
\* equals the other one: same parameter, same body, same captured bindings.
SameClosure ==
    IF With.tag = "Returned" /\ Without.tag = "Returned"
    THEN /\ With.value.param = Without.value.param
         /\ With.value.body = Without.value.body
         /\ With.value.ctx = Without.value.ctx
    ELSE FALSE

TrampolineAgreesWithNaive == (Without.tag = "Returned") ~> SameClosure

\* both evaluators have returned equal closures for pred of check_results
PredAgreed ==
    /\ expr = pred /\ context = EmptyContext
    /\ Without.tag = "Returned" /\ With = Without
    /\ With.value.param = "h" /\ With.value.ctx # EmptyContext

ActiveRuns == Cardinality({i \in 1..Len(stack) : stack[i].fn = "run"})

\* C2: while run drives the Omega term under the empty environment at most
\* two invocations of run are active: the outer one and one nested run for the
\* function or the argument subterm.
OmegaRunsBounded ==
    (expr = Omega /\ context = EmptyContext) => ActiveRuns <= 2

\* the outer run has been handed the body x x and a nested run is active
OmegaNestedRun ==
    /\ expr = Omega /\ context = EmptyContext
    /\ ActiveRuns = 2
    /\ stack[1].current_trampoline.f = Var("x")

\* C3: a Var evaluates to exactly the value its environment binds to the
\* name, and otherwise the evaluation fails naming that variable; no other
\* value is produced.  At top level, and at every lookup either evaluator
\* performs.
LookupIs(ctx, name, v) == Binding(name, v) \in ctx /\ \A b \in ctx : b.name = name => b.value = v
Unbound(ctx, name) == \A b \in ctx : b.name # name
Failed(name) == running' = "none" /\ stack' = <<>> /\ result'[running] = Panic(name)

VarAtTopLevel ==
    expr.tag = "Var" =>
        \A ev \in Evaluators :
            \/ result[ev] = None
            \/ /\ result[ev].tag = "Returned"
               /\ LookupIs(context, expr.name, result[ev].value)
            \/ /\ result[ev] = Panic(expr.name)
               /\ Unbound(context, expr.name)

VarStep ==
    /\ InFn("eval_without_trampoline", "start") /\ Top.expr.tag = "Var"
        => IF Unbound(Top.context, Top.expr.name) THEN Failed(Top.expr.name)
           ELSE stack' = Pop /\ LookupIs(Top.context, Top.expr.name, ret')
    /\ InFn("closure", "start") /\ Top.f.tag = "Var"
        => IF Unbound(Top.context, Top.f.name) THEN Failed(Top.f.name)
           ELSE /\ Len(stack') = Len(stack)
                /\ stack'[Len(stack)].func_value_tramp.tag = "Complete"
                /\ LookupIs(Top.context, Top.f.name,
                            stack'[Len(stack)].func_value_tramp.value)
    /\ InFn("closure", "func_tramp") /\ Top.arg.tag = "Var"
        => IF Unbound(Top.context, Top.arg.name) THEN Failed(Top.arg.name)
           ELSE /\ Len(stack') = Len(stack)
                /\ stack'[Len(stack)].arg_value_tramp.tag = "Complete"
                /\ LookupIs(Top.context, Top.arg.name,
                            stack'[Len(stack)].arg_value_tramp.value)
    /\ InFn("closure", "insert") /\ Top.func_value.body.tag = "Var"
        => IF Unbound(Top.new_ctx, Top.func_value.body.name)
           THEN Failed(Top.func_value.body.name)
           ELSE /\ stack' = Pop /\ ret'.tag = "Complete"
                /\ LookupIs(Top.new_ctx, Top.func_value.body.name, ret'.value)

VarLookup == []VarAtTopLevel /\ [][VarStep]_vars

\* both evaluators have failed on Var("x") under the empty environment
UnboundXFailedTwice ==
    /\ expr = Var("x") /\ context = EmptyContext
    /\ With = Panic("x") /\ Without = Panic("x")

\* frames of the invocations that evaluate an application
AppFrames == {fr \in Frames : fr.fn \in {"eval_without_trampoline", "closure"}}
AppOf(fr) == IF fr.fn = "closure" THEN App(fr.f, fr.arg) ELSE fr.expr

\* work on the argument subterm has begun: its lookup or closure construction
\* is done, or its evaluation has been called
ArgBegun(fr) ==
    \/ fr.pc \in {"arg", "insert", "body"}
    \/ fr.fn = "closure" /\ fr.arg_value_tramp.tag = "Complete"

\* C4: in both evaluators no work on the argument of an application begins
\* before its function subterm has been evaluated to a closure.
FunctionBeforeArgument ==
    \A fr \in AppFrames : ArgBegun(fr) => fr.func_value # None

\* C5: in both evaluators the body of the applied closure is evaluated under
\* the captured environment with the parameter bound to the argument value:
\* the parameter's binding is the argument, every other binding is one of the
\* captured environment, whatever the caller's environment binds.
IsExtension(new_ctx, ctx, param, value) ==
    /\ LookupIs(new_ctx, param, value)
    /\ \A b \in new_ctx : b.name # param => b \in ctx
    /\ \A b \in ctx : b.name # param => b \in new_ctx

BodyEnvironmentBuilt ==
    \A fr \in AppFrames : fr.pc \in {"insert", "body"} =>
        IsExtension(fr.new_ctx, fr.func_value.ctx, fr.func_value.param, fr.arg_value)

BodyEnteredNaive ==
    \A i \in 1..Len(stack) :
        (stack[i].fn = "eval_without_trampoline" /\ stack[i].pc = "body" /\ i < Len(stack))
            => /\ stack[i + 1].expr = stack[i].func_value.body
               /\ stack[i + 1].context = stack[i].new_ctx

BodyEnteredTrampoline ==
    InFn("closure", "insert") =>
        LET body == Top.func_value.body
        IN  /\ body.tag = "App" => ret' = Continue(body.f, body.arg, Top.new_ctx)
            /\ body.tag = "Abs" => ret' = Complete(VClosure(Top.new_ctx, body.param, body.body))
            /\ body.tag = "Var" /\ Unbound(Top.new_ctx, body.name) => Failed(body.name)

BodyEnvironment ==
    /\ [](BodyEnvironmentBuilt /\ BodyEnteredNaive)
    /\ [][BodyEnteredTrampoline]_vars

\* x is applied to y where the caller binds y and the closure of x does not:
\* the naive evaluator has failed on the body y, the trampolined one is about
\* to
CallerBindingInvisible ==
    /\ Without = Panic("y")
    /\ InFn("closure", "insert")
    /\ Top.func_value.body = Var("y")
    /\ ContainsKey(Top.context, "y") /\ ~ContainsKey(Top.new_ctx, "y")

\* C6: in both evaluators the body of an application is entered only with
\* the argument evaluated to a value, whether the body uses it or not; an
\* application whose argument fails or diverges returns no value.
ArgumentEvaluated ==
    \A fr \in AppFrames : fr.pc \in {"insert", "body"} =>
        LET arg == AppOf(fr).arg
        IN  /\ fr.arg_value # None
            /\ arg.tag = "Var" => LookupIs(fr.context, arg.name, fr.arg_value)
            /\ arg.tag = "Abs" => fr.arg_value = VClosure(fr.context, arg.param, arg.body)

ArgumentFailureFails ==
    (expr.tag = "App" /\ expr.arg.tag = "Var" /\ Unbound(context, expr.arg.name))
        => \A ev \in Evaluators : result[ev].tag # "Returned"

ArgumentDivergenceDiverges ==
    (expr.tag = "App" /\ expr.arg = Omega /\ context = EmptyContext)
        => \A ev \in Evaluators : result[ev].tag # "Returned"

EagerArgument ==
    ArgumentEvaluated /\ ArgumentFailureFails /\ ArgumentDivergenceDiverges

\* the body \y. y ignores the parameter x, yet both evaluators have failed on
\* the unbound argument
UnusedArgumentFailed ==
    /\ expr = App(Abs("x", Abs("y", Var("y"))), Var("y")) /\ context = EmptyContext
    /\ With = Panic("y") /\ Without = Panic("y")

\* C7: a lookup that fails anywhere in a trampolined evaluation, in the
\* outermost step or under nested runs, ends the outermost run with the
\* failure naming that variable; afterwards no run or step is active and the
\* outcome stays that failure, never a value.
LookupFails(name) ==
    \/ InFn("closure", "start") /\ Top.f = Var(name) /\ Unbound(Top.context, name)
    \/ InFn("closure", "func_tramp") /\ Top.arg = Var(name) /\ Unbound(Top.context, name)
    \/ InFn("closure", "insert") /\ Top.func_value.body = Var(name)
           /\ Unbound(Top.new_ctx, name)

FailureEndsRun ==
    /\ \A name \in Names \cup PredNames :
          LookupFails(name) => With' = Panic(name) /\ stack' = <<>> /\ running' = "none"
    /\ With.tag = "Panic" => With' = With

FailedRunIsOver ==
    With.tag = "Panic" =>
        /\ running # "with_trampoline"
        /\ \A fr \in Frames : fr.fn \notin {"run", "closure"}

FailureIsTerminal == []FailedRunIsOver /\ [][FailureEndsRun]_vars

\* the lookup of y has failed under a nested run for the function subterm y x
NestedLookupFailed ==
    /\ expr = App(App(Var("y"), Var("x")), Var("x"))
    /\ context = {Binding("x", IdValue)}
    /\ With = Panic("y") /\ stack = <<>>

\* C8: no step of either evaluator changes an existing environment: the
\* inputs and the environment of every active invocation stay as they are,
\* and a closure bound in an environment is still bound there, with its
\* captured environment, after it has been applied; the body's environment is
\* that captured environment plus the binding of this call only.
SameInvocations ==
    \A i \in 1..Len(stack) :
        (i <= Len(stack') /\ stack[i].fn # "run")
            => /\ stack'[i].fn = stack[i].fn
               /\ stack'[i].context = stack[i].context
               /\ stack[i].pc \in {"insert", "body"}
                     => /\ stack'[i].func_value = stack[i].func_value
                        /\ stack'[i].new_ctx = stack[i].new_ctx

InputsKept ==
    /\ expr' = expr /\ context' = context
    /\ (stack' # <<>> /\ stack'[1].fn = "eval_without_trampoline")
           => stack'[1].expr = expr /\ stack'[1].context = context

AppliedClosureKept ==
    \A fr \in AppFrames :
        (fr.pc \in {"insert", "body"} /\ AppOf(fr).f.tag = "Var")
            => /\ LookupIs(fr.context, AppOf(fr).f.name, fr.func_value)
               /\ IsExtension(fr.new_ctx, Get(fr.context, AppOf(fr).f.name).ctx,
                              fr.func_value.param, fr.arg_value)

EnvironmentsUnchanged ==
    []AppliedClosureKept /\ [][SameInvocations /\ InputsKept]_vars

\* x is applied a second time, to the closure its first application returned:
\* the body's environment binds x to that closure and nothing else, and the
\* caller still binds x and y as before
SecondApplication ==
    /\ expr = App(Var("x"), App(Var("x"), Var("y")))
    /\ context = {Binding("x", KValue), Binding("y", IdValue)}
    /\ Len(stack) = 1 /\ InFn("eval_without_trampoline", "insert")
    /\ Top.context = context
    /\ Top.new_ctx =
          {Binding("x", VClosure({Binding("x", IdValue)}, "y", Var("x")))}

\* C9: the Omega term under the empty environment never completes when
\* driven by run: the outermost run only ever holds a pending step, after the
\* first one always the step for x x with x bound to the closure of \x. x x,
\* it never returns, never fails and always has a next step.
OmegaPending ==
    Continue(Var("x"), Var("x"),
             {Binding("x", VClosure(EmptyContext, "x", App(Var("x"), Var("x"))))})

OmegaNeverCompletes ==
    (expr = Omega /\ context = EmptyContext) =>
        /\ With = None
        /\ running = "with_trampoline" =>
              /\ stack[1].fn = "run"
              /\ stack[1].current_trampoline
                    \in {Continue(SelfApply, SelfApply, EmptyContext), OmegaPending}
              /\ ENABLED Next

\* the outermost run is back at the head of its loop with the step for x x
OmegaIterated ==
    /\ expr = Omega /\ context = EmptyContext
    /\ running = "with_trampoline" /\ Len(stack) = 1
    /\ InFn("run", "loop") /\ Top.current_trampoline = OmegaPending
    /\ ret = OmegaPending

\* number of applications on the longest path from the root of a term
RECURSIVE AppNesting(_)
AppNesting(t) ==
    CASE t.tag = "Var" -> 0
      [] t.tag = "Abs" -> AppNesting(t.body)
      [] t.tag = "App" ->
            LET nf == AppNesting(t.f)
                na == AppNesting(t.arg)
            IN  1 + (IF nf >= na THEN nf ELSE na)

Max(S) == IF S = {} THEN 0 ELSE CHOOSE m \in S : \A k \in S : k <= m

RECURSIVE ContextNesting(_)
ContextNesting(ctx) ==
    Max(UNION {{AppNesting(b.value.body), ContextNesting(b.value.ctx)} : b \in ctx})

\* C10: during eval_with_trampoline(expr, context).run() the number of
\* active run invocations is at most 1 plus the largest number of
\* applications on a path of expr or of a closure body of context.
RunsBoundedByNesting ==
    ActiveRuns <= 1 + Max({AppNesting(expr), ContextNesting(context)})

\* C11: the step of an application hands the trampoline of the closure body
\* back to the run that invoked it, and that run advances it at its own level:
\* when the body's trampoline is built the step is the top invocation, so the
\* nested runs it started for the function and the argument have returned;
\* the step then ends, the run below takes what it returned as its current
\* trampoline, and the body's step is invoked where the step was.
StepUnderItsRun ==
    \A i \in 1..Len(stack) :
        LET fr == stack[i]
        IN  /\ fr.fn = "closure" =>
                 /\ i > 1 /\ stack[i - 1].fn = "run" /\ stack[i - 1].pc = "func"
                 /\ stack[i - 1].current_trampoline = Continue(fr.f, fr.arg, fr.context)
                 /\ i < Len(stack) => fr.pc \in {"func", "arg"}
            /\ (fr.fn = "run" /\ i < Len(stack)) => stack[i + 1].fn = "closure"

BodyHandedBack ==
    /\ (InFn("closure", "insert") /\ ~(\E b \in Names \cup PredNames : LookupFails(b)))
          => /\ stack' = Pop
             /\ ActiveRuns' = ActiveRuns
             /\ ret'.tag \in {"Complete", "Continue"}
             /\ ret'.tag = "Continue" =>
                   /\ App(ret'.f, ret'.arg) = Top.func_value.body
                   /\ ret'.context = Top.new_ctx
    /\ InFn("run", "func")
          => /\ stack' = SetTop([Top EXCEPT !.pc = "loop", !.current_trampoline = ret])
             /\ ActiveRuns' = ActiveRuns
    /\ (InFn("run", "loop") /\ Top.current_trampoline.tag = "Continue"
            /\ Len(stack) < MaxStack)
          => /\ Len(stack') = Len(stack) + 1
             /\ ActiveRuns' = ActiveRuns
             /\ stack'[Len(stack')].fn = "closure"
             /\ stack'[Len(stack')].pc = "start"

BodyDrivenBySameRun == []StepUnderItsRun /\ [][BodyHandedBack]_vars

\* a nested run, started by a step for its function subterm, is back at the
\* head of its loop holding the pending trampoline of a closure body
NestedRunHoldsBody ==
    /\ Len(stack) = 3 /\ InFn("run", "loop")
    /\ stack[2].pc = "func"
    /\ Top.current_trampoline.tag = "Continue"
    /\ Top.current_trampoline = ret
    /\ App(ret.f, ret.arg) # stack[2].f

\* C12: whenever eval_without_trampoline fails naming a variable,
\* eval_with_trampoline(..).run() fails naming the same variable; and the
\* trampolined evaluator does not fail where the naive one diverges, as it
\* does on an application whose function subterm is the Omega term.
SameFailure ==
    /\ (Without.tag = "Panic" /\ With # None) => With = Without
    /\ (expr.tag = "App" /\ context = EmptyContext)
          => (IF expr.f = Omega THEN With.tag # "Panic" ELSE TRUE)

\* C13: eval_with_trampoline yields Complete for a bound Var and for an Abs
\* and a pending trampoline for an App; building the pending trampoline looks
\* nothing up and does not fail, the step only exists once a run has invoked
\* it; and a run that finds Complete returns the carried value at once.
TrampolineOf(t, tramp) ==
    IF t.tag = "App" THEN tramp.tag = "Continue" ELSE tramp.tag = "Complete"

TrampolineShapes ==
    /\ \A fr \in Frames : fr.fn = "closure" =>
          /\ fr.pc # "start" => TrampolineOf(fr.f, fr.func_value_tramp)
          /\ fr.pc \notin {"start", "func_tramp"} => TrampolineOf(fr.arg, fr.arg_value_tramp)
          /\ \E r \in Frames : r.fn = "run" /\ r.pc = "func"
                /\ r.current_trampoline = Continue(fr.f, fr.arg, fr.context)
    /\ (running = "with_trampoline" /\ Len(stack) = 1 /\ Top.pc = "loop" /\ With = None
            /\ ret = None)
          => TrampolineOf(expr, Top.current_trampoline)

PendingBuiltWithoutWork ==
    /\ (MayCall("with_trampoline") /\ expr.tag = "App")
          => /\ With' = None
             /\ stack' = <<[fn |-> "run", pc |-> "loop",
                            current_trampoline |->
                                [tag |-> "Continue", f |-> expr.f, arg |-> expr.arg,
                                 context |-> context]]>>
    /\ (InFn("closure", "start") /\ Top.f.tag = "App")
          => /\ With' = None /\ Len(stack') = Len(stack)
             /\ stack'[Len(stack)].func_value_tramp
                   = [tag |-> "Continue", f |-> Top.f.f, arg |-> Top.f.arg,
                      context |-> Top.context]
    /\ (InFn("closure", "func_tramp") /\ Top.arg.tag = "App")
          => /\ With' = None /\ Len(stack') = Len(stack)
             /\ stack'[Len(stack)].arg_value_tramp
                   = [tag |-> "Continue", f |-> Top.arg.f, arg |-> Top.arg.arg,
                      context |-> Top.context]
    /\ (InFn("closure", "insert") /\ Top.func_value.body.tag = "App")
          => With' = None /\ stack' = Pop /\ ret'.tag = "Continue"

CompleteIsReturned ==
    (InFn("run", "loop") /\ Top.current_trampoline.tag = "Complete")
        => /\ stack' = Pop
           /\ ret' = Top.current_trampoline.value
           /\ Len(stack) = 1 => With' = Returned(Top.current_trampoline.value)

TrampolineStates ==
    []TrampolineShapes /\ [][PendingBuiltWithoutWork /\ CompleteIsReturned]_vars

\* the pending trampoline of y y is held by the outermost run although y is
\* bound nowhere: nothing has failed yet
PendingWithUnboundVariable ==
    /\ expr = App(Var("y"), Var("y")) /\ context = EmptyContext
    /\ running = "with_trampoline" /\ With = None
    /\ stack = <<RunFrame(Continue(Var("y"), Var("y"), EmptyContext))>>

\* C14: in both evaluators an Abs evaluates at once, without failure, to the
\* closure of its parameter and body over exactly the environment it is
\* evaluated under; the body is not evaluated, unbound variables in it do not
\* matter.
ClosureOver(v, ctx, abs) ==
    /\ v.param = abs.param /\ v.body = abs.body
    /\ \A b \in ctx : b \in v.ctx
    /\ \A b \in v.ctx : b \in ctx

AbsAtTopLevel ==
    expr.tag = "Abs" =>
        /\ \A ev \in Evaluators :
              IF result[ev] = None THEN TRUE
              ELSE result[ev].tag = "Returned" /\ ClosureOver(result[ev].value, context, expr)
        /\ running = "with_trampoline" =>
              /\ Len(stack) = 1 /\ Top.current_trampoline.tag = "Complete"
              /\ ClosureOver(Top.current_trampoline.value, context, expr)

AbsStep ==
    /\ (InFn("eval_without_trampoline", "start") /\ Top.expr.tag = "Abs")
          => stack' = Pop /\ ClosureOver(ret', Top.context, Top.expr)
    /\ (InFn("closure", "start") /\ Top.f.tag = "Abs")
          => /\ Len(stack') = Len(stack)
             /\ stack'[Len(stack)].func_value_tramp.tag = "Complete"
             /\ ClosureOver(stack'[Len(stack)].func_value_tramp.value, Top.context, Top.f)
    /\ (InFn("closure", "func_tramp") /\ Top.arg.tag = "Abs")
          => /\ Len(stack') = Len(stack)
             /\ stack'[Len(stack)].arg_value_tramp.tag = "Complete"
             /\ ClosureOver(stack'[Len(stack)].arg_value_tramp.value, Top.context, Top.arg)
    /\ (InFn("closure", "insert") /\ Top.func_value.body.tag = "Abs")
          => /\ stack' = Pop /\ ret'.tag = "Complete"
             /\ ClosureOver(ret'.value, Top.new_ctx, Top.func_value.body)

AbstractionIsImmediate == []AbsAtTopLevel /\ [][AbsStep]_vars

\* \x. y, whose body names the unbound y, has evaluated to its closure over
\* the environment binding x in both evaluators
AbsWithUnboundBody ==
    /\ expr = Abs("x", Var("y")) /\ context = {Binding("x", IdValue)}
    /\ With = Returned([ctx |-> context, param |-> "x", body |-> Var("y")])
    /\ Without = With

\* C15: eval_without_trampoline on the Omega term under the empty
\* environment never returns and never fails, and its recursion uses up any
\* stack: the invocations waiting for a body only grow in number, and the
\* evaluation goes on until all MaxStack frames are active.
IsOmega == expr = Omega /\ context = EmptyContext
WaitingForBody == Cardinality({i \in 1..Len(stack) : stack[i].pc = "body"})

NaiveOmegaRecursing ==
    IsOmega =>
        /\ Without = None
        /\ running = "without_trampoline" =>
              /\ \A fr \in Frames : fr.fn = "eval_without_trampoline"
              /\ Len(stack) - WaitingForBody <= 2
              /\ Len(stack) < MaxStack => ENABLED Next

NaiveOmegaGrows ==
    (IsOmega /\ running = "without_trampoline" /\ running' = running)
        => WaitingForBody' >= WaitingForBody

NaiveOmegaOverflows ==
    /\ []NaiveOmegaRecursing
    /\ [][NaiveOmegaGrows]_vars
    /\ (IsOmega /\ order = "without_trampoline")
          ~> (running = "without_trampoline" /\ Len(stack) = MaxStack)

\* every available frame holds an invocation of eval_without_trampoline
NaiveOmegaStackFull ==
    /\ IsOmega /\ running = "without_trampoline"
    /\ Len(stack) = MaxStack /\ WaitingForBody = MaxStack - 1
    /\ \A fr \in Frames : fr.fn = "eval_without_trampoline"
====
